---- MODULE Spec2Model ----
(***************************************************************************)
(* NCBIRetriever (s26647_2025-2.py): search establishes a server-side      *)
(* history session (WebEnv, QueryKey, Count); fetch_and_filter pages       *)
(* through it in windows of `step` records and keeps the records whose     *)
(* sequence length lies in [min_len, max_len]; save_csv sorts the kept     *)
(* triples by length, descending, and writes them; main chains the calls.  *)
(*                                                                         *)
(* The remote service (Entrez) and the file system are the environment:    *)
(* the server holds, per issued session, the size of its result set, and   *)
(* its i-th record (0-based) is Rec(i).                                    *)
(***************************************************************************)
EXTENDS Integers, Sequences, FiniteSets, TLC

VARIABLES
    self,       \* the retriever's attributes: a record whose DOMAIN is the set of attributes set so far
    sessions,   \* server: sessions[n] = the n-th history session issued: its result set's size,
                \* and whether the reply that announced it was complete
    pc,         \* where the running program is
    caller,     \* "client" (a caller of the methods) or "main" (the script's main)
    args,       \* main's parsed command line
    op,         \* the method called last, with its argument (or, for search, the server's reply)
    frame,      \* fetch_and_filter's locals: max_records, records, the offsets the loop has yet to take
    calls,      \* the efetch calls issued by the current (or last) fetch_and_filter call
    answers,    \* how each of those calls ended: "page", "transport failed", "parse failed"
    fetched,    \* the records the server returned to those calls, in order
    outcome,    \* how the last method call ended: returned a value, or raised
    data,       \* save_csv's argument
    csv,        \* the CSV file: absent, or its rows
    png,        \* the plot file: absent, or the rows plotted
    out,        \* lines printed by main
    nSearch,    \* number of search calls made so far
    prev        \* history: the fetch_and_filter call that a repeated call repeats, and its result

vars == <<self, sessions, pc, caller, args, op, frame, calls, answers, fetched, outcome,
          data, csv, png, out, nSearch, prev>>

----------------------------------------------------------------------------
(* Bounds of the model *)

MaxSearches == 2
MaxCount == 250
MaxLimit == 300
MaxRows == 4

(* Program constants *)

step == 100
DefaultLimit == 200

----------------------------------------------------------------------------
(* Values *)

Min(a, b) == IF a <= b THEN a ELSE b

\* A slip: the larger of the two bounds the range
max(a, b) == IF a >= b THEN a ELSE b

\* Python's min(self.count, max_records) of line 22
min(a, b) == IF a <= b THEN a ELSE b

\* range(0, stop, step) of line 22, as the sequence of values the loop takes
RECURSIVE RangeFrom(_, _, _)
RangeFrom(first, stop, by) ==
    IF first >= stop THEN <<>> ELSE <<first>> \o RangeFrom(first + by, stop, by)

\* A slip: the stop itself is taken too
RangeInclusive(stop) == RangeFrom(0, stop + 1, step)

Range(stop) == RangeFrom(0, stop, step)

\* Result-set sizes the server may report, and the limits a caller may pass
Counts == {0, 3, 150, MaxCount}
Limits == {-1, 0, step, 150, DefaultLimit, MaxLimit}

\* Filter bounds (min_len, max_len) a retriever may be constructed with
FilterRanges == {<<100, 1500>>, <<50, 800>>, <<1000, 1999>>}

\* Python attribute access: the attributes an object has are its record's fields
HasAttr(obj, a) == a \in DOMAIN obj
SetAttrs(obj, new) == new @@ obj

\* How a call ends
NoOutcome == [status |-> "none"]
Returned(v) == [status |-> "returned", value |-> v]
Raised(e) == [status |-> "raised", exc |-> e]

\* A file that has not been written
Absent == [written |-> FALSE]
File(rows) == [written |-> TRUE, rows |-> rows]

----------------------------------------------------------------------------
(* Decimal text, as the server sends Count and as int() reads it *)

Digits == <<"0", "1", "2", "3", "4", "5", "6", "7", "8", "9">>

DigitVal(c) == (CHOOSE i \in 1..10 : Digits[i] = c) - 1

RECURSIVE NatToStr(_)
NatToStr(n) ==
    IF n < 10 THEN <<Digits[n + 1]>> ELSE NatToStr(n \div 10) \o <<Digits[(n % 10) + 1]>>

IntToStr(n) == IF n < 0 THEN <<"-">> \o NatToStr(-n) ELSE NatToStr(n)

IsDigits(s) == Len(s) > 0 /\ \A i \in 1..Len(s) : \E d \in 1..10 : Digits[d] = s[i]

RECURSIVE DigitsToNat(_)
DigitsToNat(s) ==
    IF Len(s) = 0 THEN 0
    ELSE 10 * DigitsToNat(SubSeq(s, 1, Len(s) - 1)) + DigitVal(s[Len(s)])

\* int(text): whether it parses, and its value
IsIntLiteral(s) ==
    IF Len(s) > 0 /\ s[1] \in {"-", "+"} THEN IsDigits(Tail(s)) ELSE IsDigits(s)

int(s) ==
    IF s[1] = "-" THEN -DigitsToNat(Tail(s))
    ELSE IF s[1] = "+" THEN DigitsToNat(Tail(s))
    ELSE DigitsToNat(s)

----------------------------------------------------------------------------
(* The server *)

\* The i-th record (0-based) of a result set; seqlen is len(r.seq)
SeqLens == <<50, 2000, 800>>
LenOf(i) == SeqLens[(i % 3) + 1] + (i \div 3)
Rec(i) == [id |-> i, seqlen |-> LenOf(i), description |-> i]

\* esearch's reply for the n-th session over a result set of `total` records
WellFormed(n, total) ==
    [WebEnv |-> <<"MCID", n>>, QueryKey |-> n, Count |-> IntToStr(total)]

Without(res, f) == [a \in DOMAIN res \ {f} |-> res[a]]

MalformedReplies(n) ==
    LET res == WellFormed(n, step) IN
    {Without(res, f) : f \in DOMAIN res} \cup {[res EXCEPT !.Count = <<"n", "/", "a">>]}

\* Every way an esearch round trip can end
SearchReplies(n) ==
    {[transport |-> "failed"]}
    \cup {[transport |-> "ok", total |-> t, res |-> WellFormed(n, t)] : t \in Counts}
    \cup {[transport |-> "ok", total |-> step, res |-> r] : r \in MalformedReplies(n)}

\* The records of the window [retstart, retstart + retmax) of a result set of `total`
FullPageSize(total, retstart, retmax) ==
    IF retstart >= total THEN 0 ELSE Min(retmax, total - retstart)

Page(retstart, n) == [k \in 1..n |-> Rec(retstart + k - 1)]

----------------------------------------------------------------------------
(* NCBIRetriever.search *)

\* A slip: res.get("Count") for res["Count"], so int(None) raises TypeError
SearchExcGet(reply) ==
    IF reply.transport = "failed" THEN "URLError"
    ELSE IF ~HasAttr(reply.res, "WebEnv") THEN "KeyError"
    ELSE IF ~HasAttr(reply.res, "QueryKey") THEN "KeyError"
    ELSE IF ~HasAttr(reply.res, "Count") THEN "TypeError"
    ELSE IF ~IsIntLiteral(reply.res.Count) THEN "ValueError"
    ELSE "none"

\* The exception lines 14-16 raise for a reply, or "none"
SearchExc(reply) ==
    IF reply.transport = "failed" THEN "URLError"
    ELSE IF ~HasAttr(reply.res, "WebEnv") THEN "KeyError"
    ELSE IF ~HasAttr(reply.res, "QueryKey") THEN "KeyError"
    ELSE IF ~HasAttr(reply.res, "Count") THEN "KeyError"
    ELSE IF ~IsIntLiteral(reply.res.Count) THEN "ValueError"
    ELSE "none"

\* Line 16: the right-hand side is evaluated whole, then the three attributes are set
SearchAssign(obj, res) ==
    SetAttrs(obj, [env |-> res.WebEnv, key |-> res.QueryKey, count |-> int(res.Count)])

\* A slip: three assignments, one per attribute, each made as soon as its value is read
search_stepwise(reply) ==
    /\ op' = [name |-> "search", reply |-> reply]
    /\ nSearch' = nSearch + 1
    /\ sessions' = IF reply.transport = "ok"
                       THEN Append(sessions, [total |-> reply.total,
                                              complete |-> SearchExc(reply) = "none"])
                       ELSE sessions
    /\ IF SearchExc(reply) = "none"
       THEN /\ self' = SearchAssign(self, reply.res)
            /\ outcome' = Returned(SearchAssign(self, reply.res).count)
       ELSE /\ outcome' = Raised(SearchExc(reply))
            /\ self' = IF reply.transport = "failed" \/ ~HasAttr(reply.res, "WebEnv")
                          THEN self
                       ELSE IF ~HasAttr(reply.res, "QueryKey")
                          THEN SetAttrs(self, [env |-> reply.res.WebEnv])
                       ELSE SetAttrs(self, [env |-> reply.res.WebEnv,
                                            key |-> reply.res.QueryKey])

search(reply) ==
    /\ op' = [name |-> "search", reply |-> reply]
    /\ nSearch' = nSearch + 1
    /\ sessions' = IF reply.transport = "ok"
                       THEN Append(sessions, [total |-> reply.total,
                                              complete |-> SearchExc(reply) = "none"])
                       ELSE sessions
    /\ IF SearchExc(reply) # "none"
       THEN /\ self' = self
            /\ outcome' = Raised(SearchExc(reply))
       ELSE /\ self' = SearchAssign(self, reply.res)
            /\ outcome' = Returned(SearchAssign(self, reply.res).count)

----------------------------------------------------------------------------
(* Control: where a call returns to, and where an uncaught exception lands *)

\* main resumes at line 65 after fetch_and_filter; a client is idle between calls
ReturnSite == IF caller = "main" THEN "main_65" ELSE "idle"

\* main has no handler: the run dies with a traceback; a client regains control
RaiseSite == IF caller = "main" THEN "crashed" ELSE "idle"

----------------------------------------------------------------------------
(* NCBIRetriever.fetch_and_filter *)

NoFrame == [live |-> FALSE]

\* A slip: the upper bound excluded
InRangeExclusive(obj, l) == obj.min_len <= l /\ l < obj.max_len

\* Line 28: the length filter
InRange(obj, l) == obj.min_len <= l /\ l <= obj.max_len

\* Line 29: the triple kept for a record
Triple(r) == <<r.id, r.seqlen, r.description>>

\* A slip: the list is kept sorted by length, longest first
ParseAndFilterSorted(obj, records, page) ==
    LET kept == SelectSeq(page, LAMBDA r : InRange(obj, r.seqlen))
    IN SortSeq(records \o [k \in 1..Len(kept) |-> Triple(kept[k])],
               LAMBDA a, b : a[2] > b[2])

\* Lines 26-29: the page's records that pass the filter, in the page's order, are
\* appended to `records` as triples
ParseAndFilter(obj, records, page) ==
    LET kept == SelectSeq(page, LAMBDA r : InRange(obj, r.seqlen))
    IN records \o [k \in 1..Len(kept) |-> Triple(kept[k])]

\* A slip: the query key taken to be 1, as it is in a fresh history
EfetchCallFirstKey(obj, start) ==
    [retstart |-> start, retmax |-> step, webenv |-> obj.env, query_key |-> 1]

\* A slip: retmax left out, so the server's default page size of 20 applies
EfetchCallNoMax(obj, start) ==
    [retstart |-> start, retmax |-> 20, webenv |-> obj.env, query_key |-> obj.key]

\* Lines 23-25: the efetch call of one loop iteration
EfetchCall(obj, start) ==
    [retstart |-> start, retmax |-> step, webenv |-> obj.env, query_key |-> obj.key]

\* The size of the result set the server holds for a call's session (0: no such session)
SessionTotal(call) ==
    IF /\ call.query_key \in 1..Len(sessions)
       /\ call.webenv = <<"MCID", call.query_key>>
    THEN sessions[call.query_key].total ELSE 0

\* A slip: a class-level default count = 0
ReadCountDefault(obj) ==
    IF HasAttr(obj, "count") THEN Returned(obj.count) ELSE Returned(0)

\* Line 22, self.count: an attribute no search has set raises AttributeError
ReadCount(obj) ==
    IF HasAttr(obj, "count") THEN Returned(obj.count) ELSE Raised("AttributeError")

\* A slip: records is a mutable default argument, so the list of the call before lives on
fetch_begin_carry(max_records) ==
    /\ op' = [name |-> "fetch_and_filter", max_records |-> max_records]
    /\ calls' = <<>>
    /\ answers' = <<>>
    /\ fetched' = <<>>
    /\ IF ReadCount(self).status = "raised"
       THEN /\ outcome' = ReadCount(self)
            /\ frame' = NoFrame
            /\ pc' = RaiseSite
       ELSE /\ outcome' = NoOutcome
            /\ frame' = [live |-> TRUE, max_records |-> max_records,
                         records |-> IF op.name = "fetch_and_filter"
                                        /\ outcome.status = "returned"
                                     THEN outcome.value ELSE <<>>,
                         todo |-> Range(min(ReadCount(self).value, max_records))]
            /\ pc' = "fetch_loop"

\* Lines 19-22: entry; the range is computed once from self.count and max_records
fetch_begin(max_records) ==
    /\ op' = [name |-> "fetch_and_filter", max_records |-> max_records]
    /\ calls' = <<>>
    /\ answers' = <<>>
    /\ fetched' = <<>>
    /\ IF ReadCount(self).status = "raised"
       THEN /\ outcome' = ReadCount(self)
            /\ frame' = NoFrame
            /\ pc' = RaiseSite
       ELSE /\ outcome' = NoOutcome
            /\ frame' = [live |-> TRUE, max_records |-> max_records, records |-> <<>>,
                         todo |-> Range(min(ReadCount(self).value, max_records))]
            /\ pc' = "fetch_loop"

\* Lines 22-29: one iteration; the server answers with n records, all of them parsed
FetchPageOf(n) ==
    LET call == EfetchCall(self, Head(frame.todo))
        page == Page(call.retstart, n)
    IN /\ calls' = Append(calls, call)
       /\ answers' = Append(answers, "page")
       /\ fetched' = fetched \o page
       /\ frame' = [frame EXCEPT !.records = ParseAndFilter(self, @, page),
                                 !.todo = Tail(@)]
       /\ UNCHANGED <<pc, outcome>>

\* The server returns every record of the window it holds (at most retmax)
FetchPage ==
    /\ pc = "fetch_loop"
    /\ Len(frame.todo) > 0
    /\ LET call == EfetchCall(self, Head(frame.todo))
       IN FetchPageOf(FullPageSize(SessionTotal(call), call.retstart, call.retmax))
    /\ UNCHANGED <<self, sessions, caller, args, op, data, csv, png, out, nSearch, prev>>

\* A slip: an empty page is taken for the end of the result set and the loop stops
FetchShortPageStops ==
    /\ pc = "fetch_loop"
    /\ Len(frame.todo) > 0
    /\ LET call == EfetchCall(self, Head(frame.todo))
       IN /\ FullPageSize(SessionTotal(call), call.retstart, call.retmax) > 0
          /\ calls' = Append(calls, call)
          /\ answers' = Append(answers, "page")
          /\ frame' = [frame EXCEPT !.todo = <<>>]
    /\ UNCHANGED <<self, sessions, pc, caller, args, op, fetched, outcome, data, csv, png, out,
                   nSearch, prev>>

\* The server returns an empty page although the window holds records
FetchShortPage ==
    /\ pc = "fetch_loop"
    /\ Len(frame.todo) > 0
    /\ LET call == EfetchCall(self, Head(frame.todo))
       IN /\ FullPageSize(SessionTotal(call), call.retstart, call.retmax) > 0
          /\ FetchPageOf(0)
    /\ UNCHANGED <<self, sessions, caller, args, op, data, csv, png, out, nSearch, prev>>

\* A slip: the failed page is caught and skipped, and the loop goes on
FetchTransportFailSkipped ==
    /\ pc = "fetch_loop"
    /\ Len(frame.todo) > 0
    /\ calls' = Append(calls, EfetchCall(self, Head(frame.todo)))
    /\ answers' = Append(answers, "transport failed")
    /\ frame' = [frame EXCEPT !.todo = Tail(@)]
    /\ UNCHANGED <<self, sessions, pc, caller, args, op, fetched, outcome, data, csv, png, out,
                   nSearch, prev>>

\* Line 23: efetch raises (transport failure); nothing catches it
FetchTransportFail ==
    /\ pc = "fetch_loop"
    /\ Len(frame.todo) > 0
    /\ calls' = Append(calls, EfetchCall(self, Head(frame.todo)))
    /\ answers' = Append(answers, "transport failed")
    /\ outcome' = Raised("URLError")
    /\ frame' = NoFrame
    /\ pc' = RaiseSite
    /\ UNCHANGED <<self, sessions, caller, args, op, fetched, data, csv, png, out, nSearch, prev>>

\* Line 26: SeqIO.parse raises on the page's second record, after yielding the first
FetchParseFail ==
    /\ pc = "fetch_loop"
    /\ Len(frame.todo) > 0
    /\ LET call == EfetchCall(self, Head(frame.todo))
           full == FullPageSize(SessionTotal(call), call.retstart, call.retmax)
       IN /\ calls' = Append(calls, call)
          /\ answers' = Append(answers, "parse failed")
          /\ fetched' = fetched \o Page(call.retstart, Min(1, full))
    /\ outcome' = Raised("ValueError")
    /\ frame' = NoFrame
    /\ pc' = RaiseSite
    /\ UNCHANGED <<self, sessions, caller, args, op, data, csv, png, out, nSearch, prev>>

\* A slip: the session is discarded once the last page is in
FetchReturnDiscards ==
    /\ pc = "fetch_loop"
    /\ Len(frame.todo) = 0
    /\ outcome' = Returned(frame.records)
    /\ frame' = NoFrame
    /\ pc' = ReturnSite
    /\ self' = [min_len |-> self.min_len, max_len |-> self.max_len]
    /\ UNCHANGED <<sessions, caller, args, op, calls, answers, fetched, data, csv, png, out,
                   nSearch, prev>>

\* Line 30: the range is exhausted
FetchReturn ==
    /\ pc = "fetch_loop"
    /\ Len(frame.todo) = 0
    /\ outcome' = Returned(frame.records)
    /\ frame' = NoFrame
    /\ pc' = ReturnSite
    /\ UNCHANGED <<self, sessions, caller, args, op, calls, answers, fetched, data, csv, png, out, nSearch,
                   prev>>

----------------------------------------------------------------------------
(* A client of the class: constructs a retriever, then calls its methods *)

\* Lines 8-10
Construct(min_len, max_len) == [min_len |-> min_len, max_len |-> max_len]

Init ==
    /\ \E fr \in FilterRanges : self = Construct(fr[1], fr[2])
    /\ sessions = <<>>
    /\ pc = "idle"
    /\ caller = "client"
    /\ args = <<>>
    /\ op = [name |-> "none"]
    /\ frame = NoFrame
    /\ calls = <<>>
    /\ answers = <<>>
    /\ fetched = <<>>
    /\ outcome = NoOutcome
    /\ data = <<>>
    /\ csv = Absent
    /\ png = Absent
    /\ out = <<>>
    /\ nSearch = 0
    /\ prev = [status |-> "none"]

ClientSearch ==
    /\ pc = "idle"
    /\ nSearch < MaxSearches
    /\ \E reply \in SearchReplies(Len(sessions) + 1) : search(reply)
    /\ UNCHANGED <<pc, caller, args, frame, calls, answers, fetched, data, csv, png, out, prev>>

ClientFetch ==
    /\ pc = "idle"
    /\ \E max_records \in Limits : fetch_begin(max_records)
    /\ UNCHANGED <<self, sessions, caller, args, data, csv, png, out, nSearch, prev>>

Next ==
    \/ ClientSearch
    \/ ClientFetch
    \/ FetchPage
    \/ FetchShortPage
    \/ FetchTransportFail
    \/ FetchParseFail
    \/ FetchReturn

Spec == Init /\ [][Next]_vars

----------------------------------------------------------------------------
(* A client that repeats a fetch_and_filter call, against a server that answers a
   request for a window with every record the window holds *)

\* Lines 19-22, called again with the max_records of the call that has just returned
RepeatFetch ==
    /\ pc = "idle"
    /\ op.name = "fetch_and_filter"
    /\ outcome.status = "returned"
    /\ prev' = [status |-> "returned", max_records |-> op.max_records, session |-> self,
                value |-> outcome.value]
    /\ fetch_begin(op.max_records)
    /\ UNCHANGED <<self, sessions, caller, args, data, csv, png, out, nSearch>>

RepeatNext ==
    \/ ClientSearch
    \/ ClientFetch
    \/ RepeatFetch
    \/ FetchPage
    \/ FetchTransportFail
    \/ FetchParseFail
    \/ FetchReturn

RepeatSpec == Init /\ [][RepeatNext]_vars

----------------------------------------------------------------------------
(* NCBIRetriever.save_csv and plot_lengths *)

Length(row) == row[2]

\* The rows with the same Length as row i
Ties(d, i) == {j \in 1..Len(d) : Length(d[j]) = Length(d[i])}

\* sort_values is called without kind=, so pandas sorts with its default "quicksort",
\* which is not stable: rows of equal Length may be left in any order. A tie order
\* ranks the rows of each group of equal Length.
TieOrders(d) ==
    LET n == Len(d)
        widest == IF n = 0 THEN 1
                  ELSE CHOOSE g \in 1..n :
                         /\ \E i \in 1..n : Cardinality(Ties(d, i)) = g
                         /\ \A i \in 1..n : Cardinality(Ties(d, i)) <= g
    IN {f \in [1..n -> 1..widest] :
          \A i \in 1..n :
             /\ f[i] <= Cardinality(Ties(d, i))
             /\ \A j \in Ties(d, i) : j # i => f[j] # f[i]}

\* Line 34: the rows by Length, descending, ties in the order f ranks them
SortDescending(d, f) ==
    LET tagged == [i \in 1..Len(d) |-> <<d[i], f[i]>>]
        sorted == SortSeq(tagged,
                          LAMBDA a, b : \/ Length(a[1]) > Length(b[1])
                                        \/ Length(a[1]) = Length(b[1]) /\ a[2] < b[2])
    IN [p \in 1..Len(d) |-> sorted[p][1]]

\* Every table sort_values may leave
sort_values(d) == {SortDescending(d, f) : f \in TieOrders(d)}

\* Lines 32-36: the table is sorted, written, and returned
save_csv(d) ==
    /\ op' = [name |-> "save_csv"]
    /\ data' = d
    /\ \E df \in sort_values(d) :
          /\ csv' = File(df)
          /\ outcome' = Returned(df)

\* Line 35: to_csv cannot open the file
save_csv_fails(d) ==
    /\ op' = [name |-> "save_csv"]
    /\ data' = d
    /\ csv' = csv
    /\ outcome' = Raised("OSError")

\* Lines 38-45: the plotted points (Accession, Length), in the table's order
plot_lengths(df) ==
    /\ op' = [name |-> "plot_lengths"]
    /\ png' = File([p \in 1..Len(df) |-> <<df[p][1], df[p][2]>>])
    /\ outcome' = Returned(<<>>)

\* Line 45: savefig cannot write the file
plot_lengths_fails(df) ==
    /\ op' = [name |-> "plot_lengths"]
    /\ png' = png
    /\ outcome' = Raised("OSError")

----------------------------------------------------------------------------
(* A client of the two sinks: saves a table, then plots what save_csv returned *)

SortLengths == {120, 300, 500}

\* Tables of up to MaxRows rows with distinct accessions
Tables ==
    UNION {{[i \in 1..n |-> <<i, ls[i], i>>] : ls \in [1..n -> SortLengths]} : n \in 0..MaxRows}

ClientSaveCsv ==
    /\ pc = "idle"
    /\ op.name = "none"
    /\ \E d \in Tables : save_csv(d) \/ save_csv_fails(d)
    /\ UNCHANGED <<self, sessions, pc, caller, args, frame, calls, answers, fetched, png, out, nSearch,
                   prev>>

ClientPlot ==
    /\ pc = "idle"
    /\ op.name = "save_csv"
    /\ outcome.status = "returned"
    /\ plot_lengths(outcome.value) \/ plot_lengths_fails(outcome.value)
    /\ UNCHANGED <<self, sessions, pc, caller, args, frame, calls, answers, fetched, data, csv, out,
                   nSearch, prev>>

SinkNext ==
    \/ ClientSaveCsv
    \/ ClientPlot

SinkSpec == Init /\ [][SinkNext]_vars

----------------------------------------------------------------------------
(* main *)

MainInit ==
    /\ \E fr \in FilterRanges, lim \in Limits :
          args = [min_len |-> fr[1], max_len |-> fr[2], limit |-> lim]
    /\ self = <<>>
    /\ sessions = <<>>
    /\ pc = "main_58"
    /\ caller = "main"
    /\ op = [name |-> "none"]
    /\ frame = NoFrame
    /\ calls = <<>>
    /\ answers = <<>>
    /\ fetched = <<>>
    /\ outcome = NoOutcome
    /\ data = <<>>
    /\ csv = Absent
    /\ png = Absent
    /\ out = <<>>
    /\ nSearch = 0
    /\ prev = [status |-> "none"]

\* Lines 58-59
MainConstruct ==
    /\ pc = "main_58"
    /\ self' = Construct(args.min_len, args.max_len)
    /\ out' = Append(out, "Searching TaxID")
    /\ pc' = "main_60"
    /\ UNCHANGED <<sessions, caller, args, op, frame, calls, answers, fetched, outcome, data, csv, png,
                   nSearch, prev>>

\* Lines 60-62: a search that raises ends the run; a count of 0 ends it normally
MainSearch ==
    /\ pc = "main_60"
    /\ \E reply \in SearchReplies(Len(sessions) + 1) : search(reply)
    /\ IF outcome'.status = "raised"
       THEN pc' = "crashed" /\ out' = out
       ELSE IF outcome'.value = 0
       THEN pc' = "exit" /\ out' = Append(out, "No records found.")
       ELSE pc' = "main_63" /\ out' = out
    /\ UNCHANGED <<caller, args, frame, calls, answers, fetched, data, csv, png, prev>>

\* Lines 63-64: the call of fetch_and_filter
MainFetch ==
    /\ pc = "main_63"
    /\ out' = Append(out, "Fetching & filtering...")
    /\ fetch_begin(args.limit)
    /\ UNCHANGED <<self, sessions, caller, args, data, csv, png, nSearch, prev>>

\* A slip: the empty list is not checked for
MainCheckNoGuard ==
    /\ pc = "main_65"
    /\ data' = outcome.value
    /\ pc' = "main_70"
    /\ UNCHANGED <<self, sessions, caller, args, op, frame, calls, answers, fetched, outcome,
                   csv, png, out, nSearch, prev>>

\* Lines 64-67: data is what fetch_and_filter returned; an empty list ends the run normally
MainCheck ==
    /\ pc = "main_65"
    /\ data' = outcome.value
    /\ IF Len(outcome.value) = 0
       THEN pc' = "exit" /\ out' = Append(out, "No records within length range.")
       ELSE pc' = "main_70" /\ out' = out
    /\ UNCHANGED <<self, sessions, caller, args, op, frame, calls, answers, fetched, outcome, csv, png,
                   nSearch, prev>>

\* Lines 68-70
MainSaveCsv ==
    /\ pc = "main_70"
    /\ \/ save_csv(data) /\ pc' = "main_71"
       \/ save_csv_fails(data) /\ pc' = "crashed"
    /\ UNCHANGED <<self, sessions, caller, args, frame, calls, answers, fetched, png, out, nSearch,
                   prev>>

\* Line 71
MainPlot ==
    /\ pc = "main_71"
    /\ \/ plot_lengths(outcome.value) /\ pc' = "main_72"
       \/ plot_lengths_fails(outcome.value) /\ pc' = "crashed"
    /\ UNCHANGED <<self, sessions, caller, args, frame, calls, answers, fetched, data, csv, out, nSearch,
                   prev>>

\* Line 72
MainPrintCsv ==
    /\ pc = "main_72"
    /\ out' = Append(out, "Saved CSV")
    /\ pc' = "main_73"
    /\ UNCHANGED <<self, sessions, caller, args, op, frame, calls, answers, fetched, outcome, data, csv,
                   png, nSearch, prev>>

\* Line 73, and the return from main
MainPrintPlot ==
    /\ pc = "main_73"
    /\ out' = Append(out, "Saved plot")
    /\ pc' = "exit"
    /\ UNCHANGED <<self, sessions, caller, args, op, frame, calls, answers, fetched, outcome, data, csv,
                   png, nSearch, prev>>

MainNext ==
    \/ MainConstruct
    \/ MainSearch
    \/ MainFetch
    \/ FetchPage
    \/ FetchShortPage
    \/ FetchTransportFail
    \/ FetchParseFail
    \/ FetchReturn
    \/ MainCheck
    \/ MainSaveCsv
    \/ MainPlot
    \/ MainPrintCsv
    \/ MainPrintPlot

MainSpec == MainInit /\ [][MainNext]_vars

----------------------------------------------------------------------------
(* Properties of the class, under Spec *)

InFetch == op.name = "fetch_and_filter"

\* C1: with T = count >= 0 and M = max_records >= 0, the number of records fetched
\* so far by one fetch_and_filter call never exceeds min(T, M).
C1_FetchedWithinLimit ==
    (frame.live /\ frame.max_records >= 0 /\ self.count >= 0)
        => Len(fetched) <= Min(self.count, frame.max_records)

\* C2 as stated: fetch_and_filter before any successful search signals
\* SequenceError: NoActiveSession, issues no fetch call and returns nothing.
C2_NoActiveSession ==
    (InFetch /\ ~HasAttr(self, "count"))
        => outcome = Raised("SequenceError: NoActiveSession") /\ Len(calls) = 0

\* C2 amended: fetch_and_filter before any successful search raises AttributeError
\* (the read of the unset attribute count), issues no fetch call and returns nothing.
C2_AttributeError ==
    (InFetch /\ ~HasAttr(self, "count"))
        => outcome = Raised("AttributeError") /\ Len(calls) = 0 /\ ~frame.live

C2_Witness ==
    InFetch /\ ~HasAttr(self, "count") /\ nSearch > 0 /\ outcome.status = "raised"

\* C3: the offsets requested by one fetch_and_filter call are multiples of 100 below
\* min(T, M), none twice; when the call returns, every such multiple was requested.
C3_Offsets ==
    (InFetch /\ HasAttr(self, "count")) =>
        LET lim == Min(self.count, op.max_records)
            expected == {x \in 0..(lim - 1) : x % 100 = 0}
            n == Len(calls)
        IN /\ \A i \in 1..n : calls[i].retstart \in expected
           /\ \A i, j \in 1..n : i # j => calls[i].retstart # calls[j].retstart
           /\ outcome.status = "returned" =>
                 \A x \in expected : \E i \in 1..n : calls[i].retstart = x

C3_Witness ==
    /\ InFetch /\ outcome.status = "returned"
    /\ self.count = 250 /\ op.max_records = 200
    /\ Len(calls) = 2 /\ calls[1].retstart = 0 /\ calls[2].retstart = 100

\* C4: every fetch call of a fetch_and_filter call carries the (WebEnv, QueryKey) pair
\* of the most recent successful search, the same on every page.
C4_SessionReused ==
    (InFetch /\ Len(calls) > 0) =>
        /\ \E n \in 1..Len(sessions) : sessions[n].complete
        /\ LET good == {n \in 1..Len(sessions) : sessions[n].complete}
               last == CHOOSE n \in good : \A m \in good : m <= n
           IN \A i \in 1..Len(calls) :
                 calls[i].webenv = <<"MCID", last>> /\ calls[i].query_key = last

C4_Witness ==
    /\ InFetch /\ Len(calls) >= 2
    /\ Len(sessions) = 2 /\ sessions[1].complete /\ sessions[2].complete

\* `list` holds the triple of a fetched record iff min_len <= length <= max_len, and
\* nothing else
C5_Kept(list) ==
    /\ \A i \in 1..Len(fetched) :
          (\E j \in 1..Len(list) :
              list[j] = <<fetched[i].id, fetched[i].seqlen, fetched[i].description>>)
          <=> (self.min_len <= fetched[i].seqlen /\ fetched[i].seqlen <= self.max_len)
    /\ \A j \in 1..Len(list) :
          \E i \in 1..Len(fetched) :
              list[j] = <<fetched[i].id, fetched[i].seqlen, fetched[i].description>>

\* C5: a fetched record's triple is in the list fetch_and_filter builds and returns
\* iff min_len <= length <= max_len (both inclusive); the list holds nothing else.
C5_FilterIff ==
    /\ (InFetch /\ frame.live) => C5_Kept(frame.records)
    /\ (InFetch /\ outcome.status = "returned") => C5_Kept(outcome.value)

C5_Witness ==
    /\ InFetch /\ outcome.status = "returned"
    /\ self.min_len = 100 /\ self.max_len = 1500
    /\ Len(fetched) = 3
    /\ fetched[1].seqlen = 50 /\ fetched[2].seqlen = 2000 /\ fetched[3].seqlen = 800
    /\ Len(outcome.value) = 1 /\ outcome.value[1][2] = 800

\* C6: with count = 0, fetch_and_filter issues no fetch call, raises nothing and
\* returns the empty list, whatever max_records is.
C6_ZeroCount ==
    (InFetch /\ HasAttr(self, "count") /\ self.count = 0) =>
        /\ Len(calls) = 0
        /\ outcome.status # "raised"
        /\ frame.live => (Len(frame.todo) = 0 /\ Len(frame.records) = 0)
        /\ ~frame.live => (outcome.status = "returned" /\ Len(outcome.value) = 0)

C6_Witness ==
    /\ InFetch /\ HasAttr(self, "count") /\ self.count = 0 /\ op.max_records > 0
    /\ outcome.status = "returned" /\ Len(outcome.value) = 0

\* The transport failed, or the reply lacks WebEnv, QueryKey or Count
SearchFailed ==
    /\ op.name = "search"
    /\ \/ op.reply.transport = "failed"
       \/ \E f \in {"WebEnv", "QueryKey", "Count"} : f \notin DOMAIN op.reply.res

\* C8 as stated: such a search signals RetrievalError and returns no count.
C8_RetrievalError ==
    SearchFailed => outcome = Raised("RetrievalError")

\* C8 amended: such a search raises the transport's own error (URLError) or KeyError
\* for the missing field, unwrapped, and returns no count.
C8_SearchPropagates ==
    SearchFailed =>
        outcome = Raised(IF op.reply.transport = "failed" THEN "URLError" ELSE "KeyError")

C8_Witness ==
    /\ op.name = "search" /\ op.reply.transport = "ok"
    /\ "Count" \notin DOMAIN op.reply.res
    /\ outcome.status = "raised"

\* C11: within one fetch_and_filter call the fetch calls are issued one at a time, in
\* strictly increasing retstart order, and the list built and returned is the retained
\* records in page order, each page's in the server's order; it is not sorted by length.
C11_PageOrder ==
    InFetch =>
        LET kept == SelectSeq(fetched, LAMBDA r : self.min_len <= r.seqlen
                                                  /\ r.seqlen <= self.max_len)
            inOrder == [k \in 1..Len(kept) |->
                           <<kept[k].id, kept[k].seqlen, kept[k].description>>]
        IN /\ Len(answers) = Len(calls)
           /\ \A i \in 1..(Len(calls) - 1) : calls[i].retstart < calls[i + 1].retstart
           /\ frame.live => frame.records = inOrder
           /\ outcome.status = "returned" => outcome.value = inOrder

C11_Witness ==
    /\ InFetch /\ outcome.status = "returned"
    /\ Len(calls) >= 2
    /\ Len(outcome.value) >= 100
    /\ outcome.value[1][2] < outcome.value[2][2]

\* C12: the offsets requested depend only on count and max_records: whatever the pages
\* returned (also none), the calls made and the offsets still to come are the plan
\* 0, 100, 200, ... below min(T, M), and a call that returns has requested all of it.
C12_PlanFixed ==
    (InFetch /\ HasAttr(self, "count")) =>
        LET lim == Min(self.count, op.max_records)
            plan == IF lim <= 0 THEN <<>>
                    ELSE [k \in 1..((lim + 99) \div 100) |-> (k - 1) * 100]
            requested == [i \in 1..Len(calls) |-> calls[i].retstart]
        IN /\ frame.live => requested \o frame.todo = plan
           /\ outcome.status = "returned" => requested = plan

C12_Witness ==
    /\ InFetch /\ outcome.status = "returned"
    /\ Len(calls) = 3 /\ Len(fetched) = 50

\* C14: after any searches, env, key and count are all unset (no search has succeeded)
\* or all three are those of the most recent successful search's reply.
C14_SessionWhole ==
    LET good == {n \in 1..Len(sessions) : sessions[n].complete}
    IN IF good = {}
       THEN ~HasAttr(self, "env") /\ ~HasAttr(self, "key") /\ ~HasAttr(self, "count")
       ELSE LET last == CHOOSE n \in good : \A m \in good : m <= n
            IN /\ HasAttr(self, "env") /\ HasAttr(self, "key") /\ HasAttr(self, "count")
               /\ self.env = <<"MCID", last>>
               /\ self.key = last
               /\ self.count = sessions[last].total

C14_Witness ==
    /\ op.name = "search" /\ outcome.status = "raised"
    /\ op.reply.transport = "ok"
    /\ HasAttr(op.reply.res, "WebEnv") /\ ~HasAttr(op.reply.res, "Count")
    /\ Len(sessions) = 2
    /\ HasAttr(self, "count") /\ self.key = 1 /\ self.count = 250

\* C15: fetch_and_filter(M) issues ceil(min(T, M) / 100) fetch calls in all (none when
\* min(T, M) <= 0) and then returns, and every call carries retmax = 100.
C15_CallCount ==
    (InFetch /\ HasAttr(self, "count")) =>
        LET lim == Min(self.count, op.max_records)
            total == IF lim <= 0 THEN 0
                     ELSE CHOOSE n \in 1..lim : n * 100 >= lim /\ (n - 1) * 100 < lim
        IN /\ \A i \in 1..Len(calls) : calls[i].retmax = 100
           /\ frame.live => Len(calls) + Len(frame.todo) = total
           /\ outcome.status = "returned" => Len(calls) = total
           /\ outcome.status = "raised" => Len(calls) <= total

C15_Witness ==
    /\ InFetch /\ outcome.status = "returned"
    /\ self.count = 250 /\ op.max_records = 150
    /\ Len(calls) = 2 /\ calls[2].retstart = 100 /\ calls[2].retmax = 100

----------------------------------------------------------------------------
(* Properties of repeated calls, under RepeatSpec *)

\* C16: a fetch_and_filter(M) call that returns on the session and with the M of an
\* earlier call that returned, returns the same list: nothing of the earlier result
\* is carried over.
C16_RepeatSame ==
    (/\ InFetch /\ outcome.status = "returned"
     /\ prev.status = "returned"
     /\ prev.max_records = op.max_records
     /\ prev.session = self)
        => outcome.value = prev.value

C16_Witness ==
    /\ InFetch /\ outcome.status = "returned"
    /\ prev.status = "returned"
    /\ prev.max_records = op.max_records
    /\ prev.session = self
    /\ Len(calls) >= 2
    /\ Len(prev.value) > 0

----------------------------------------------------------------------------
(* Properties of main, under MainSpec *)

Printed(line) == \E i \in 1..Len(out) : out[i] = line

\* C7: once the fetch or the parse of a page has failed, that call is the last fetch
\* call ever issued, fetch_and_filter has raised and returned nothing, the run is dead,
\* and neither the CSV nor the plot file is written.
C7_PageFailureAborts ==
    \A i \in 1..Len(answers) :
        answers[i] # "page" =>
            /\ i = Len(calls)
            /\ InFetch /\ outcome.status = "raised" /\ ~frame.live
            /\ pc = "crashed"
            /\ Len(data) = 0
            /\ ~csv.written /\ ~png.written
            /\ ~ENABLED MainNext

C7_Witness ==
    /\ Len(answers) = 2 /\ answers[1] = "page" /\ answers[2] = "parse failed"
    /\ Len(fetched) > 100
    /\ pc = "crashed"

\* C9: a count of 0 ends the run normally with no fetch call and no file; an empty
\* filtered list ends it normally with no file; the CSV is written only for a
\* non-empty list, the plot only after the CSV, and a name is printed only after
\* both files are written.
C9_MainExits ==
    /\ (HasAttr(self, "count") /\ self.count = 0) =>
          /\ pc = "exit" /\ op.name = "search" /\ Len(calls) = 0
          /\ ~csv.written /\ ~png.written
    /\ (InFetch /\ outcome.status = "returned" /\ Len(outcome.value) = 0) =>
          /\ pc \in {"main_65", "exit"}
          /\ ~csv.written /\ ~png.written
    /\ pc = "exit" =>
          \/ Printed("No records found.") /\ self.count = 0
          \/ Printed("No records within length range.") /\ Len(data) = 0
          \/ Printed("Saved plot")
    /\ csv.written => (Len(data) > 0 /\ Len(csv.rows) = Len(data))
    /\ png.written => csv.written
    /\ (Printed("Saved CSV") \/ Printed("Saved plot")) => (csv.written /\ png.written)

C9_Witness ==
    /\ pc = "exit"
    /\ Len(fetched) > 0 /\ Len(data) = 0
    /\ Printed("No records within length range.")
    /\ ~csv.written /\ ~png.written

\* C13: once a search has succeeded, no step of fetch_and_filter, save_csv or
\* plot_lengths, returning or raising, changes env, key, count, min_len or max_len.
C13_SessionFrame ==
    [][(HasAttr(self, "count")
        /\ op'.name \in {"fetch_and_filter", "save_csv", "plot_lengths"}) => self' = self]_vars

C13_Witness ==
    /\ pc = "crashed" /\ op.name = "plot_lengths" /\ outcome.status = "raised"
    /\ csv.written /\ ~png.written
    /\ HasAttr(self, "count") /\ self.count = 250

----------------------------------------------------------------------------
(* Properties of save_csv, under SinkSpec *)

\* C10: the table save_csv persists is the input reordered by non-increasing Length,
\* rows of equal Length in their input order.
C10_StableDescending ==
    (op.name = "save_csv" /\ csv.written) =>
        LET rows == csv.rows
            n == Len(data)
            at(p) == CHOOSE i \in 1..n : data[i] = rows[p]
        IN /\ Len(rows) = n
           /\ \A i \in 1..n : \E p \in 1..n : rows[p] = data[i]
           /\ \A p, q \in 1..n : p < q => Length(rows[p]) >= Length(rows[q])
           /\ \A p, q \in 1..n :
                 (p < q /\ Length(rows[p]) = Length(rows[q])) => at(p) < at(q)

====
